---- MODULE Spec2Model ----
(***************************************************************************)
(* docker-update-commander (src/app.py): the update checker, the result    *)
(* cache, the auto-update policy, the updater dispatcher and the           *)
(* background worker, together with the HTTP handlers that run             *)
(* concurrently with the worker.                                           *)
(*                                                                         *)
(* Strings that the program inspects (image references, container ids,     *)
(* host names, image ids) are sequences of tokens, so that `x in y`,       *)
(* split(':') and slicing are computed and not assumed.                    *)
(***************************************************************************)
EXTENDS Integers, Sequences, FiniteSets, TLC

\* ------------------------------------------------------------------ bounds

\* Number of running containers on the host.
NumContainers == 2
\* Length of a container's short id (docker's short_id is a prefix of the id).
ShortIdLen == 2
\* The wall clock when the process starts, and the last instant modelled.
StartTime == 120
MaxTime == 260
\* Seconds a blocking call to the runtime takes when it is slow.
BlockedSeconds == 30
\* Number of HTTP requests served while the worker runs.
MaxRequests == 1
\* The same, while the worker idles in a mode other than 'background'.
ManualRequests == 3

\* --------------------------------------------------------- program constants

\* time.sleep(10) at the end of an iteration, time.sleep(60) after a failure.
TICK_SLEEP == 10
BACKOFF_SLEEP == 60
\* interval_seconds = interval_minutes * 60
SECONDS_PER_MINUTE == 60
\* [:12] of an image id
ID_SHORT_LEN == 12

UPDATER_IMAGE == <<"containrrr", "/", "watchtower">>
\* The literal the two container filters look for.
WATCHTOWER == <<"watchtower">>
UNKNOWN_IMAGE == <<"unknown-image">>
UNKNOWN == <<"unknown">>
NA == <<"n/a">>

DEFAULT_CONFIG ==
    [check_mode |-> "manual",
     check_interval |-> [kind |-> "int", val |-> 60],
     auto_update_mode |-> "off",
     auto_update_containers |-> {}]

\* ------------------------------------------------------------ string helpers

Take(s, n) == SubSeq(s, 1, IF n < Len(s) THEN n ELSE Len(s))

\* Python's `needle in hay` on strings.
Contains(hay, needle) ==
    \E i \in 0..(Len(hay) - Len(needle)) :
        \A j \in 1..Len(needle) : hay[i + j] = needle[j]

\* s.split(':')[-1]
AfterLastColon(s) ==
    LET colons == {i \in 1..Len(s) : s[i] = ":"}
        last == IF colons = {} THEN 0
                ELSE CHOOSE i \in colons : \A k \in colons : k <= i
    IN  SubSeq(s, last + 1, Len(s))

\* id.split(':')[-1][:12]
ShortImageId(id) == Take(AfterLastColon(id), ID_SHORT_LEN)

\* ------------------------------------------------------------------ the host

CIDs == 1..NumContainers

\* c.id, c.short_id and c.name of the running containers.
ContainerId(c) == <<c, c + 1, 0, c>>
ShortId(c) == Take(ContainerId(c), ShortIdLen)
Names == <<"web", "api", "db", "cache", "proxy">>
ContainerName(c) == Names[c]
AllNames == {ContainerName(c) : c \in CIDs}

IMG_OLD == <<"sha256", ":", "0", "a">>
IMG_NEW == <<"sha256", ":", "0", "b">>
IMG_WT == <<"sha256", ":", "7", "7">>

NGINX == <<"nginx", ":", "latest">>
LOCAL_APP == <<"local", "/", "app">>

\* What a container can be running: its image's tags, the image reference of
\* its creation configuration, and its image's id.
ImageSpecs ==
    { [tags |-> <<NGINX>>, cfg |-> <<"nginx">>, id |-> IMG_OLD],
      [tags |-> <<NGINX>>, cfg |-> <<"nginx">>, id |-> IMG_NEW],
      [tags |-> <<>>, cfg |-> LOCAL_APP, id |-> IMG_OLD],
      [tags |-> <<>>, cfg |-> <<>>, id |-> IMG_OLD],
      [tags |-> <<UPDATER_IMAGE \o <<":", "latest">>>>, cfg |-> UPDATER_IMAGE,
       id |-> IMG_WT] }

\* What the registry serves for a reference ("none": the reference is not
\* published).
Registry(ref) ==
    IF ref = NGINX THEN IMG_NEW
    ELSE IF Contains(ref, UPDATER_IMAGE) THEN IMG_WT
    ELSE <<"none">>

\* image.attrs.get('Created', 'Unknown')
Created(id) == IF id = IMG_WT THEN <<"Unknown">> ELSE <<"created">> \o ShortImageId(id)

\* socket.gethostname(): unrelated to every container, or the short id of the
\* container the process runs in, possibly inside a longer name.
Hostnames ==
    {<<0, 0, 0>>} \cup {ShortId(c) : c \in CIDs}
                  \cup {<<0>> \o ShortId(c) \o <<0>> : c \in {NumContainers}}

Threads == {"worker", "req"}

NoPull == [kind |-> "none", id |-> <<>>]
NoChk == [cid |-> 0, image_name |-> <<>>, current_id |-> <<>>]
NoResult == [update_available |-> FALSE, is_local |-> FALSE,
             current_id_short |-> <<>>, new_id_short |-> <<>>,
             current_created |-> <<>>, new_created |-> <<>>, checked_at |-> 0]

\* ---------------------------------------------------------- pure functions

\* load_config(): the defaults when the file is missing or holds no complete
\* document (json.load raises, lines 53-55), the stored document otherwise
\* (update_settings always stores all four keys).
LoadConfig(file) ==
    IF file.exists /\ "data" \in DOMAIN file THEN file.data ELSE DEFAULT_CONFIG

\* Lines 227-230: the allowed keys present in the request replace the stored
\* values.
MergeSettings(current, new_settings) ==
    [k \in DOMAIN current |->
        IF k \in DOMAIN new_settings THEN new_settings[k] ELSE current[k]]

\* get_image_name(container); lookupOk is whether the image lookup behind
\* container.image answered.
GetImageName(spec, lookupOk) ==
    IF ~lookupOk THEN UNKNOWN
    ELSE IF spec.tags # <<>> THEN spec.tags[1]
    ELSE IF spec.cfg # <<>> THEN spec.cfg
    ELSE UNKNOWN_IMAGE

\* `not image_name or image_name == "unknown-image"`
NameUnusable(image_name) == image_name = <<>> \/ image_name = UNKNOWN_IMAGE

\* What client.images.pull(ref) can do: return the image the registry
\* serves, raise NotFound when it serves none, or raise APIError or another
\* error at any time.
PullOutcomes(ref) ==
    (IF Registry(ref) = <<"none">>
     THEN {[kind |-> "NotFound", id |-> <<>>]}
     ELSE {[kind |-> "ok", id |-> Registry(ref)]})
    \cup {[kind |-> "APIError", id |-> <<>>], [kind |-> "error", id |-> <<>>]}

\* A handler that catches NotFound alone.
IsRegistryErrorNotFoundOnly(out) == out.kind = "NotFound"

\* The `except (docker.errors.NotFound, docker.errors.APIError)` clause.
IsRegistryError(out) == out.kind \in {"NotFound", "APIError"}

\* Mode 'selected' without the membership test.
ShouldUpdateSelectedAny(res, auto_up_mode, auto_up_list, name) ==
    /\ res.update_available
    /\ ~res.is_local
    /\ auto_up_mode \in {"all", "selected"}

\* The auto-update decision of the background cycle.
ShouldUpdate(res, auto_up_mode, auto_up_list, name) ==
    /\ res.update_available
    /\ ~res.is_local
    /\ \/ auto_up_mode = "all"
       \/ auto_up_mode = "selected" /\ name \in auto_up_list

\* The interval compared in minutes against elapsed seconds.
IntervalElapsedNoSeconds(t, last, interval_minutes) ==
    (t - last) >= interval_minutes

\* (time.time() - last_check_time) >= interval_seconds
IntervalElapsed(t, last, interval_minutes) ==
    (t - last) >= interval_minutes * SECONDS_PER_MINUTE

\* The two container filters of the background cycle and of list_containers.
IsSelf(c, host) == Contains(host, ShortId(c))
IsUpdater(image_name) == Contains(image_name, WATCHTOWER)

\* ------------------------------------------------------------------- state

VARIABLES
    hostname, fleet,            \* the host: its name, what each container runs
    config,                     \* the configuration file
    now,                        \* the wall clock, seconds
    SERVER_CACHE, CACHE_LOCK,   \* the result cache and the thread holding its lock
    pc,                         \* where each thread is
    chk, result,                \* perform_single_check's locals, per thread
    lastPull,                   \* history: what each thread's pull returned or raised
    target, refreshed,          \* trigger_updater_engine's argument and refresh result
    containers, pos, current_hostname,  \* the enumeration a thread iterates
    wcfg, last_check_time,      \* the worker's config snapshot and last cycle time
    resp, quota,                \* the last HTTP response, requests still to come
    runResult,                  \* history: how each thread's last one-shot run ended
    dispatchOk,                 \* history: dispatched successfully, not checked since
    attempted, skipped, failed,  \* history of the current background cycle
    lastEnumAt, goodEnumAt,     \* history: instants of enumerations
    prevPull,                   \* history: how the pull of a container's last check ended
    overlap,                    \* history: another check of the container returned
                                \* during the thread's check
    stalePull,                  \* history: the worker's dispatch for the container
                                \* returned after the thread's pull
    lateWrite,                  \* history: a check pulled and wrote between a dispatch
                                \* and its eviction
    current_config,             \* update_settings' local
    saved                       \* history: the last document save_config finished writing

worldVars == <<hostname, fleet>>
sharedVars == <<config, now, SERVER_CACHE, CACHE_LOCK>>
checkVars == <<chk, result, lastPull>>
updVars == <<target, refreshed, runResult>>
scanVars == <<containers, pos, current_hostname>>
workerVars == <<wcfg, last_check_time>>
reqVars == <<resp, quota>>
cycleHist == <<attempted, skipped, failed>>
enumHist == <<lastEnumAt, goodEnumAt>>
checkHist == <<prevPull, overlap, stalePull, lateWrite>>
settingsVars == <<current_config, saved>>
vars == <<worldVars, sharedVars, pc, checkVars, updVars, scanVars, workerVars,
          reqVars, dispatchOk, cycleHist, enumHist, checkHist, settingsVars>>

W == "worker"
R == "req"

Modes == {"manual", "startup", "background"}
AutoModes == {"off", "all", "selected"}
NoResp == [kind |-> "none"]

\* SERVER_CACHE[key].update(...) of the fields of the comparison alone: an
\* entry already there keeps its creation dates.
CachePutMerged(cache, key, value) ==
    [k \in DOMAIN cache \cup {key} |->
        IF k # key THEN cache[k]
        ELSE IF key \in DOMAIN cache
             THEN [value EXCEPT !.current_created = cache[key].current_created,
                                !.new_created = cache[key].new_created]
             ELSE value]

\* SERVER_CACHE[key] = value, and del SERVER_CACHE[key].
CachePut(cache, key, value) ==
    [k \in DOMAIN cache \cup {key} |-> IF k = key THEN value ELSE cache[k]]
CacheDel(cache, key) == [k \in DOMAIN cache \ {key} |-> cache[k]]

\* ------------------------------------------------------------------ start

\* The module's globals, the worker's locals before its loop, no request yet.
InitWith(hosts, fleets, files, start, requests) ==
    /\ hostname \in hosts
    /\ fleet \in fleets
    /\ config \in files
    /\ now = start
    /\ SERVER_CACHE = <<>>
    /\ CACHE_LOCK = "free"
    /\ pc = [t \in Threads |-> IF t = W THEN "load" ELSE "idle"]
    /\ chk = [t \in Threads |-> NoChk]
    /\ result = [t \in Threads |-> NoResult]
    /\ lastPull = [t \in Threads |-> NoPull]
    /\ target = [t \in Threads |-> ""]
    /\ refreshed = [t \in Threads |-> FALSE]
    /\ containers = [t \in Threads |-> <<>>]
    /\ pos = [t \in Threads |-> 0]
    /\ current_hostname = [t \in Threads |-> <<>>]
    /\ wcfg = DEFAULT_CONFIG
    /\ last_check_time = 0
    /\ resp = NoResp
    /\ quota = requests
    /\ runResult = [t \in Threads |-> "none"]
    /\ dispatchOk = {}
    /\ attempted = {}
    /\ skipped = {}
    /\ failed = {}
    /\ lastEnumAt = -1
    /\ goodEnumAt = -1
    /\ prevPull = [c \in CIDs |-> "none"]
    /\ lateWrite = FALSE
    /\ overlap = [t \in Threads |-> FALSE]
    /\ stalePull = [t \in Threads |-> FALSE]
    /\ current_config = DEFAULT_CONFIG
    /\ saved = LoadConfig(config)

\* --------------------------------------------------- perform_single_check

\* A thread's call of perform_single_check or trigger_updater_engine is over:
\* nothing is remembered about what happened during it.
CallOver(t) ==
    /\ overlap' = [overlap EXCEPT ![t] = FALSE]
    /\ stalePull' = [stalePull EXCEPT ![t] = FALSE]

\* The handler outside the for loop: a failure ends the cycle.
WorkerSkipFailedAborts ==
    /\ pc' = [pc EXCEPT ![W] = "sleep"]
    /\ failed' = failed \cup {chk[W].cid}
    /\ CallOver(W)
    /\ UNCHANGED <<pos, resp, quota>>

\* The worker's `except Exception as inner_e`: on to the next container.
WorkerSkipFailed ==
    /\ pc' = [pc EXCEPT ![W] = "iter"]
    /\ pos' = [pos EXCEPT ![W] = @ + 1]
    /\ failed' = failed \cup {chk[W].cid}
    /\ CallOver(W)
    /\ UNCHANGED <<resp, quota>>

\* check_update's and run_update's `except Exception`: a 500 response.
ReqFailed ==
    /\ pc' = [pc EXCEPT ![R] = "idle"]
    /\ resp' = [kind |-> "error", status |-> 500]
    /\ CallOver(R)
    /\ UNCHANGED <<pos, failed, quota>>

\* An exception leaving perform_single_check or trigger_updater_engine.
Raise(t) == IF t = W THEN WorkerSkipFailed ELSE ReqFailed

\* Lines 83-92: the container and its image are looked up, the image
\* reference is resolved, and an unusable reference raises ValueError.
ChkGet(t) ==
    /\ pc[t] = "chk_get"
    /\ \/ /\ Raise(t)
          /\ chk' = [chk EXCEPT ![t] = NoChk]
       \/ \E lookupOk \in BOOLEAN :
            LET c == chk[t].cid
                image_name == GetImageName(fleet[c], lookupOk)
            IN  IF NameUnusable(image_name)
                THEN /\ Raise(t)
                     /\ chk' = [chk EXCEPT ![t] = NoChk]
                ELSE /\ chk' = [chk EXCEPT ![t] =
                                  [cid |-> c, image_name |-> image_name,
                                   current_id |-> fleet[c].id]]
                     /\ pc' = [pc EXCEPT ![t] = "chk_pull"]
                     /\ UNCHANGED <<pos, failed, resp, quota, overlap, stalePull>>
    /\ UNCHANGED <<worldVars, sharedVars, result, lastPull, updVars, containers,
                   current_hostname, workerVars, dispatchOk, attempted, skipped,
                   enumHist, prevPull, lateWrite, settingsVars>>

\* The comparison of line 104 made after the try statement, where new_id is
\* still None when the pull raised.
CheckResultLateCompare(current_id, out, at) ==
    LET new_id == IF out.kind = "ok" THEN out.id ELSE <<>>
    IN  [update_available |-> (new_id # current_id),
         is_local |-> IsRegistryError(out),
         current_id_short |-> ShortImageId(current_id),
         new_id_short |-> IF new_id # <<>> THEN ShortImageId(new_id) ELSE NA,
         current_created |-> Created(current_id),
         new_created |-> IF out.kind = "ok" THEN Created(new_id) ELSE NA,
         checked_at |-> at]

\* Every successful pull reported as an update, without the comparison.
CheckResultAnyPull(current_id, out, at) ==
    LET new_id == IF out.kind = "ok" THEN out.id ELSE <<>>
    IN  [update_available |-> (out.kind = "ok"),
         is_local |-> IsRegistryError(out),
         current_id_short |-> ShortImageId(current_id),
         new_id_short |-> IF new_id # <<>> THEN ShortImageId(new_id) ELSE NA,
         current_created |-> Created(current_id),
         new_created |-> IF out.kind = "ok" THEN Created(new_id) ELSE NA,
         checked_at |-> at]

\* An update reported only the first time a pulled image is seen: the pulled
\* identity compared with the outcomes already cached.
CheckResultSinceLast(current_id, out, at) ==
    LET new_id == IF out.kind = "ok" THEN out.id ELSE <<>>
    IN  [update_available |->
            /\ out.kind = "ok"
            /\ new_id # current_id
            /\ \A c \in DOMAIN SERVER_CACHE :
                  SERVER_CACHE[c].new_id_short # ShortImageId(new_id),
         is_local |-> IsRegistryError(out),
         current_id_short |-> ShortImageId(current_id),
         new_id_short |-> IF new_id # <<>> THEN ShortImageId(new_id) ELSE NA,
         current_created |-> Created(current_id),
         new_created |-> IF out.kind = "ok" THEN Created(new_id) ELSE NA,
         checked_at |-> at]

\* The outcome perform_single_check builds from the pull's result.
CheckResult(current_id, out, at) ==
    LET new_id == IF out.kind = "ok" THEN out.id ELSE <<>>
    IN  [update_available |-> (out.kind = "ok" /\ new_id # current_id),
         is_local |-> IsRegistryError(out),
         current_id_short |-> ShortImageId(current_id),
         new_id_short |-> IF new_id # <<>> THEN ShortImageId(new_id) ELSE NA,
         current_created |-> Created(current_id),
         new_created |-> IF out.kind = "ok" THEN Created(new_id) ELSE NA,
         checked_at |-> at]

\* Lines 94-120: the pull and the outcome built from it.
ChkPull(t) ==
    /\ pc[t] = "chk_pull"
    /\ \E out \in PullOutcomes(chk[t].image_name) :
        /\ IF out.kind = "error"
           THEN /\ Raise(t)
                /\ chk' = [chk EXCEPT ![t] = NoChk]
                /\ UNCHANGED <<result, lastPull>>
           ELSE /\ lastPull' = [lastPull EXCEPT ![t] = out]
                /\ result' = [result EXCEPT ![t] =
                                CheckResult(chk[t].current_id, out, now)]
                /\ pc' = [pc EXCEPT ![t] = "chk_lock"]
                /\ UNCHANGED <<chk, pos, failed, resp, quota, overlap, stalePull>>
    /\ UNCHANGED <<worldVars, sharedVars, updVars, containers,
                   current_hostname, workerVars, dispatchOk, attempted, skipped,
                   enumHist, prevPull, lateWrite, settingsVars>>

\* Line 122: `with CACHE_LOCK:`.
ChkLock(t) ==
    /\ pc[t] = "chk_lock"
    /\ CACHE_LOCK = "free"
    /\ CACHE_LOCK' = t
    /\ pc' = [pc EXCEPT ![t] = "chk_write"]
    /\ UNCHANGED <<worldVars, config, now, SERVER_CACHE, checkVars, updVars,
                   scanVars, workerVars, reqVars, dispatchOk, cycleHist, enumHist,
                   checkHist, settingsVars>>

\* Lines 123-125: the write, the lock's release and the return to the caller
\* (the worker's policy decision, or check_update's response).
ChkWrite(t) ==
    /\ pc[t] = "chk_write"
    /\ CACHE_LOCK = t
    /\ SERVER_CACHE' = CachePut(SERVER_CACHE, chk[t].cid, result[t])
    /\ CACHE_LOCK' = "free"
    /\ dispatchOk' = dispatchOk \ {chk[t].cid}
    /\ prevPull' = [prevPull EXCEPT ![chk[t].cid] =
                      IF lastPull[t].kind = "ok" THEN "returned" ELSE "raised"]
    /\ lateWrite' = (\/ lateWrite
                     \/ /\ t # W
                        /\ pc[W] = "evict_lock"
                        /\ chk[W].cid = chk[t].cid
                        /\ ~stalePull[t])
    /\ overlap' = [u \in Threads |->
                     IF u = t THEN FALSE
                     ELSE overlap[u] \/ (/\ pc[u] \in {"chk_get", "chk_pull", "chk_lock"}
                                         /\ chk[u].cid = chk[t].cid)]
    /\ stalePull' = [stalePull EXCEPT ![t] = FALSE]
    /\ IF t = W
       THEN /\ pc' = [pc EXCEPT ![t] = "decide"]
            /\ UNCHANGED <<checkVars, resp>>
       ELSE /\ pc' = [pc EXCEPT ![t] = "idle"]
            /\ resp' = [kind |-> "check", status |-> 200, body |-> result[t]]
            /\ chk' = [chk EXCEPT ![t] = NoChk]
            /\ result' = [result EXCEPT ![t] = NoResult]
            /\ lastPull' = [lastPull EXCEPT ![t] = NoPull]
    /\ UNCHANGED <<worldVars, config, now, updVars, scanVars, workerVars, quota,
                   cycleHist, enumHist, settingsVars>>

\* ------------------------------------------------- trigger_updater_engine

\* The refresh pull outside any try statement: its failure leaves
\* trigger_updater_engine before the one-shot run.
UpdPullFatal(t) ==
    /\ pc[t] = "upd_pull"
    /\ \/ /\ refreshed' = [refreshed EXCEPT ![t] = TRUE]
          /\ pc' = [pc EXCEPT ![t] = "upd_run"]
          /\ UNCHANGED <<checkVars, target, reqVars, pos, failed, overlap,
                         stalePull>>
       \/ /\ Raise(t)
          /\ target' = [target EXCEPT ![t] = ""]
          /\ chk' = [chk EXCEPT ![t] = NoChk]
          /\ result' = [result EXCEPT ![t] = NoResult]
          /\ lastPull' = [lastPull EXCEPT ![t] = NoPull]
          /\ UNCHANGED refreshed
    /\ runResult' = [runResult EXCEPT ![t] = "none"]
    /\ UNCHANGED <<worldVars, sharedVars, scanVars, workerVars, dispatchOk,
                   attempted, skipped, enumHist, prevPull, lateWrite,
                   settingsVars>>

\* Lines 131-135: the refresh pull of the updater image; a failure is logged.
UpdPull(t) ==
    /\ pc[t] = "upd_pull"
    /\ \E ok \in BOOLEAN : refreshed' = [refreshed EXCEPT ![t] = ok]
    /\ pc' = [pc EXCEPT ![t] = "upd_run"]
    /\ runResult' = [runResult EXCEPT ![t] = "none"]
    /\ UNCHANGED <<worldVars, sharedVars, checkVars, target, scanVars,
                   workerVars, reqVars, dispatchOk, cycleHist, enumHist,
                   checkHist, settingsVars>>

\* The containers a one-shot run for `name` is about.
Named(name) == {c \in CIDs : ContainerName(c) = name}

\* The eviction in a `finally`: it runs when the one-shot run raised too.
RunRaisedEvicts(t) ==
    IF t = W
    THEN /\ pc' = [pc EXCEPT ![t] = "evict_lock"]
         /\ UNCHANGED <<pos, failed, resp, quota, target, checkVars, overlap,
                        stalePull>>
    ELSE /\ ReqFailed
         /\ target' = [target EXCEPT ![t] = ""]
         /\ UNCHANGED checkVars

\* The one-shot run raised: run_update answers 500, and the worker's handler
\* of line 195 goes on to the next container, past the eviction.
RunRaised(t) ==
    /\ Raise(t)
    /\ target' = [target EXCEPT ![t] = ""]
    /\ chk' = [chk EXCEPT ![t] = NoChk]
    /\ result' = [result EXCEPT ![t] = NoResult]
    /\ lastPull' = [lastPull EXCEPT ![t] = NoPull]

\* Lines 138-144: the one-shot run. When it returns, the worker goes on to
\* evict (line 192) and run_update answers success; when it raises, the
\* caller's handler runs.
UpdRun(t) ==
    /\ pc[t] = "upd_run"
    /\ \/ /\ runResult' = [runResult EXCEPT ![t] = "ok"]
          /\ IF t = W
             THEN /\ pc' = [pc EXCEPT ![t] = "evict_lock"]
                  /\ UNCHANGED <<resp, target, dispatchOk>>
             ELSE /\ pc' = [pc EXCEPT ![t] = "idle"]
                  /\ resp' = [kind |-> "update", status |-> 200]
                  /\ target' = [target EXCEPT ![t] = ""]
                  /\ dispatchOk' = dispatchOk \cup Named(target[t])
          /\ prevPull' = [c \in CIDs |->
                            IF c \in Named(target[t]) THEN "none" ELSE prevPull[c]]
          /\ stalePull' = [u \in Threads |->
                             \/ stalePull[u]
                             \/ /\ t = W
                                /\ u # t
                                /\ pc[u] \in {"chk_lock", "chk_write"}
                                /\ chk[u].cid \in Named(target[t])]
          /\ refreshed' = [refreshed EXCEPT ![t] = (t = W /\ @)]
          /\ UNCHANGED <<pos, failed, quota, checkVars, overlap, lateWrite>>
       \/ /\ runResult' = [runResult EXCEPT ![t] = "fail"]
          /\ RunRaised(t)
          /\ refreshed' = [refreshed EXCEPT ![t] = FALSE]
          /\ UNCHANGED <<dispatchOk, prevPull, lateWrite>>
    /\ UNCHANGED <<worldVars, sharedVars, containers, current_hostname,
                   workerVars, attempted, skipped, enumHist, settingsVars>>

\* ------------------------------------------------------- background_worker

\* The worker is done with the container at its position.
WorkerAdvance ==
    /\ pc' = [pc EXCEPT ![W] = "iter"]
    /\ pos' = [pos EXCEPT ![W] = @ + 1]
    /\ chk' = [chk EXCEPT ![W] = NoChk]
    /\ result' = [result EXCEPT ![W] = NoResult]
    /\ lastPull' = [lastPull EXCEPT ![W] = NoPull]

\* Lines 157-164: the configuration is read; a cycle starts when the mode is
\* 'background' and the interval has elapsed; int() of a value that is no
\* number raises into the outer handler; otherwise the iteration ends.
WorkerLoad ==
    /\ pc[W] = "load"
    /\ LET cfg == LoadConfig(config)
       IN  /\ wcfg' = cfg
           /\ pc' = [pc EXCEPT ![W] =
                IF cfg.check_mode # "background" THEN "sleep"
                ELSE IF cfg.check_interval.kind # "int" THEN "backoff"
                ELSE IF IntervalElapsed(now, last_check_time, cfg.check_interval.val)
                     THEN "enum"
                ELSE "sleep"]
    /\ UNCHANGED <<worldVars, sharedVars, checkVars, updVars, scanVars,
                   last_check_time, reqVars, dispatchOk, cycleHist, enumHist,
                   checkHist, settingsVars>>

\* Lines 168-172: the enumeration. When it raises, the handler of line 201
\* logs and the iteration ends with the short sleep.
WorkerEnum ==
    /\ pc[W] = "enum"
    /\ lastEnumAt' = now
    /\ \/ /\ containers' = [containers EXCEPT ![W] = [i \in 1..NumContainers |-> i]]
          /\ current_hostname' = [current_hostname EXCEPT ![W] = hostname]
          /\ pos' = [pos EXCEPT ![W] = 1]
          /\ pc' = [pc EXCEPT ![W] = "iter"]
          /\ attempted' = {}
          /\ skipped' = {}
          /\ failed' = {}
       \/ /\ pc' = [pc EXCEPT ![W] = "sleep"]
          /\ UNCHANGED <<scanVars, cycleHist>>
    /\ UNCHANGED <<worldVars, sharedVars, checkVars, updVars, workerVars,
                   reqVars, dispatchOk, goodEnumAt, checkHist, settingsVars>>

\* Lines 174-180: the two filters, then the check of a container that passed.
WorkerIter ==
    /\ pc[W] = "iter"
    /\ pos[W] <= Len(containers[W])
    /\ LET c == containers[W][pos[W]]
       IN  \E lookupOk \in BOOLEAN :
             IF \/ IsSelf(c, current_hostname[W])
                \/ IsUpdater(GetImageName(fleet[c], lookupOk))
             THEN /\ pos' = [pos EXCEPT ![W] = @ + 1]
                  /\ skipped' = skipped \cup {c}
                  /\ UNCHANGED <<pc, chk, attempted>>
             ELSE /\ chk' = [chk EXCEPT ![W] = [NoChk EXCEPT !.cid = c]]
                  /\ pc' = [pc EXCEPT ![W] = "chk_get"]
                  /\ attempted' = attempted \cup {c}
                  /\ UNCHANGED <<pos, skipped>>
    /\ UNCHANGED <<worldVars, sharedVars, result, lastPull, updVars, containers,
                   current_hostname, workerVars, reqVars, dispatchOk,
                   failed, enumHist,
                   checkHist, settingsVars>>

\* The dispatch made inside `with CACHE_LOCK:`, together with the eviction.
WorkerDecideLocks ==
    /\ pc[W] = "decide"
    /\ LET name == ContainerName(chk[W].cid)
       IN  IF ShouldUpdate(result[W], wcfg.auto_update_mode,
                           wcfg.auto_update_containers, name)
           THEN /\ CACHE_LOCK = "free"
                /\ CACHE_LOCK' = W
                /\ target' = [target EXCEPT ![W] = name]
                /\ pc' = [pc EXCEPT ![W] = "upd_pull"]
                /\ UNCHANGED <<pos, checkVars>>
           ELSE /\ WorkerAdvance
                /\ UNCHANGED <<target, CACHE_LOCK>>
    /\ UNCHANGED <<worldVars, config, now, SERVER_CACHE, refreshed, runResult,
                   containers, current_hostname, workerVars, reqVars, dispatchOk,
                   cycleHist, enumHist, checkHist, settingsVars>>

\* Lines 182-191: the policy decision on the outcome of the check.
WorkerDecide ==
    /\ pc[W] = "decide"
    /\ LET name == ContainerName(chk[W].cid)
       IN  IF ShouldUpdate(result[W], wcfg.auto_update_mode,
                           wcfg.auto_update_containers, name)
           THEN /\ target' = [target EXCEPT ![W] = name]
                /\ pc' = [pc EXCEPT ![W] = "upd_pull"]
                /\ UNCHANGED <<pos, checkVars>>
           ELSE /\ WorkerAdvance
                /\ UNCHANGED target
    /\ UNCHANGED <<worldVars, sharedVars, refreshed, runResult, containers,
                   current_hostname, workerVars, reqVars, dispatchOk, cycleHist,
                   enumHist,
                   checkHist, settingsVars>>

\* Line 192: `with CACHE_LOCK:` after a dispatch that returned.
WorkerEvictLock ==
    /\ pc[W] = "evict_lock"
    /\ CACHE_LOCK = "free"
    /\ CACHE_LOCK' = W
    /\ pc' = [pc EXCEPT ![W] = "evict"]
    /\ UNCHANGED <<worldVars, config, now, SERVER_CACHE, checkVars, updVars,
                   scanVars, workerVars, reqVars, dispatchOk, cycleHist, enumHist,
                   checkHist, settingsVars>>

\* Line 193: the eviction, and the lock's release.
WorkerEvict ==
    /\ pc[W] = "evict"
    /\ CACHE_LOCK = W
    /\ SERVER_CACHE' = CacheDel(SERVER_CACHE, chk[W].cid)
    /\ CACHE_LOCK' = "free"
    /\ dispatchOk' = dispatchOk \cup {chk[W].cid}
    /\ target' = [target EXCEPT ![W] = ""]
    /\ runResult' = [runResult EXCEPT ![W] = "none"]
    /\ prevPull' = [prevPull EXCEPT ![chk[W].cid] = "none"]
    /\ lateWrite' = FALSE
    /\ refreshed' = [refreshed EXCEPT ![W] = FALSE]
    /\ WorkerAdvance
    /\ UNCHANGED <<worldVars, config, now, containers,
                   current_hostname, workerVars, reqVars, cycleHist, enumHist,
                   overlap, stalePull, settingsVars>>

\* The cycle's time recorded inside the for loop, after whichever container.
WorkerCycleEndEarly ==
    /\ pc[W] = "iter"
    /\ last_check_time' = now
    /\ goodEnumAt' = lastEnumAt
    /\ pc' = [pc EXCEPT ![W] = "sleep"]
    /\ containers' = [containers EXCEPT ![W] = <<>>]
    /\ pos' = [pos EXCEPT ![W] = 0]
    /\ current_hostname' = [current_hostname EXCEPT ![W] = <<>>]
    /\ UNCHANGED <<worldVars, sharedVars, checkVars, updVars, wcfg, reqVars,
                   dispatchOk, cycleHist, lastEnumAt, checkHist,
                   settingsVars>>

\* Lines 198-199: the enumeration is exhausted; the cycle's time is recorded.
WorkerCycleEnd ==
    /\ pc[W] = "iter"
    /\ pos[W] > Len(containers[W])
    /\ last_check_time' = now
    /\ goodEnumAt' = lastEnumAt
    /\ pc' = [pc EXCEPT ![W] = "sleep"]
    /\ containers' = [containers EXCEPT ![W] = <<>>]
    /\ pos' = [pos EXCEPT ![W] = 0]
    /\ current_hostname' = [current_hostname EXCEPT ![W] = <<>>]
    /\ UNCHANGED <<worldVars, sharedVars, checkVars, updVars, wcfg, reqVars,
                   dispatchOk, cycleHist, lastEnumAt, checkHist,
                   settingsVars>>

\* Line 204: time.sleep(10).
WorkerSleep ==
    /\ pc[W] = "sleep"
    /\ now + TICK_SLEEP <= MaxTime
    /\ now' = now + TICK_SLEEP
    /\ pc' = [pc EXCEPT ![W] = "load"]
    /\ UNCHANGED <<worldVars, config, SERVER_CACHE, CACHE_LOCK, checkVars,
                   updVars, scanVars, workerVars, reqVars, dispatchOk, cycleHist,
                   enumHist,
                   checkHist, settingsVars>>

\* The worker's thread ends: an outer handler that logs and returns.
WorkerBackoffExits ==
    /\ pc[W] = "backoff"
    /\ pc' = [pc EXCEPT ![W] = "exited"]
    /\ UNCHANGED <<worldVars, sharedVars, checkVars, updVars, scanVars,
                   workerVars, reqVars, dispatchOk, cycleHist, enumHist,
                   checkHist, settingsVars>>

\* Lines 206-208: the outer handler's time.sleep(60).
WorkerBackoff ==
    /\ pc[W] = "backoff"
    /\ now + BACKOFF_SLEEP <= MaxTime
    /\ now' = now + BACKOFF_SLEEP
    /\ pc' = [pc EXCEPT ![W] = "load"]
    /\ UNCHANGED <<worldVars, config, SERVER_CACHE, CACHE_LOCK, checkVars,
                   updVars, scanVars, workerVars, reqVars, dispatchOk, cycleHist,
                   enumHist,
                   checkHist, settingsVars>>

\* The clock advances while the worker is blocked in a call to the runtime
\* (the enumeration, a pull, the one-shot run).
Elapse ==
    /\ pc[W] \in {"enum", "chk_pull", "upd_run"}
    /\ now + BlockedSeconds <= MaxTime
    /\ now' = now + BlockedSeconds
    /\ UNCHANGED <<worldVars, config, SERVER_CACHE, CACHE_LOCK, pc, checkVars,
                   updVars, scanVars, workerVars, reqVars, dispatchOk, cycleHist,
                   enumHist,
                   checkHist, settingsVars>>

WorkerNext ==
    \/ WorkerLoad \/ WorkerEnum \/ WorkerIter \/ WorkerDecide
    \/ ChkGet(W) \/ ChkPull(W) \/ ChkLock(W) \/ ChkWrite(W)
    \/ UpdPull(W) \/ UpdRun(W)
    \/ WorkerEvictLock \/ WorkerEvict \/ WorkerCycleEnd
    \/ WorkerSleep \/ WorkerBackoff

\* ------------------------------------------------------------ the handlers

\* POST /api/check/<container_id>: check_update calls perform_single_check.
ReqCheck ==
    /\ pc[R] = "idle"
    /\ quota > 0
    /\ quota' = quota - 1
    /\ runResult' = [runResult EXCEPT ![R] = "none"]
    /\ \E c \in CIDs : chk' = [chk EXCEPT ![R] = [NoChk EXCEPT !.cid = c]]
    /\ pc' = [pc EXCEPT ![R] = "chk_get"]
    /\ resp' = NoResp
    /\ UNCHANGED <<worldVars, sharedVars, result, lastPull, target, refreshed,
                   scanVars, workerVars, dispatchOk, cycleHist, enumHist,
                   checkHist, settingsVars>>

\* POST /api/update/<container_name>: run_update calls trigger_updater_engine.
ReqUpdate ==
    /\ pc[R] = "idle"
    /\ quota > 0
    /\ quota' = quota - 1
    /\ runResult' = [runResult EXCEPT ![R] = "none"]
    /\ \E name \in AllNames : target' = [target EXCEPT ![R] = name]
    /\ pc' = [pc EXCEPT ![R] = "upd_pull"]
    /\ resp' = NoResp
    /\ UNCHANGED <<worldVars, sharedVars, checkVars, refreshed, scanVars,
                   workerVars, dispatchOk, cycleHist, enumHist,
                   checkHist, settingsVars>>

\* GET /api/containers, lines 238-245: the enumeration, or a 500 response.
ReqList ==
    /\ pc[R] = "idle"
    /\ quota > 0
    /\ quota' = quota - 1
    /\ runResult' = [runResult EXCEPT ![R] = "none"]
    /\ \/ /\ containers' = [containers EXCEPT ![R] = [i \in 1..NumContainers |-> i]]
          /\ current_hostname' = [current_hostname EXCEPT ![R] = hostname]
          /\ pos' = [pos EXCEPT ![R] = 1]
          /\ pc' = [pc EXCEPT ![R] = "ls_iter"]
          /\ resp' = [kind |-> "list", status |-> 0, body |-> <<>>]
       \/ /\ resp' = [kind |-> "error", status |-> 500]
          /\ UNCHANGED <<pc, scanVars>>
    /\ UNCHANGED <<worldVars, sharedVars, checkVars, target, refreshed,
                   workerVars, dispatchOk, cycleHist, enumHist,
                   checkHist, settingsVars>>

\* Lines 247-260: the two filters, then container_data of a container that
\* passed; line 262 takes the lock.
LsIter ==
    /\ pc[R] = "ls_iter"
    /\ pos[R] <= Len(containers[R])
    /\ LET c == containers[R][pos[R]]
       IN  \E lookupOk \in BOOLEAN :
            LET image_name == GetImageName(fleet[c], lookupOk)
            IN  IF IsSelf(c, current_hostname[R]) \/ IsUpdater(image_name)
                THEN /\ pos' = [pos EXCEPT ![R] = @ + 1]
                     /\ UNCHANGED <<pc, chk, CACHE_LOCK>>
                ELSE /\ CACHE_LOCK = "free"
                     /\ CACHE_LOCK' = R
                     /\ chk' = [chk EXCEPT ![R] =
                                  [NoChk EXCEPT !.cid = c, !.image_name = image_name]]
                     /\ pc' = [pc EXCEPT ![R] = "ls_read"]
                     /\ UNCHANGED pos
    /\ UNCHANGED <<worldVars, config, now, SERVER_CACHE, result, lastPull,
                   updVars, containers, current_hostname, workerVars, reqVars,
                   dispatchOk, cycleHist, enumHist,
                   checkHist, settingsVars>>

\* Lines 263-266: the cached outcome is attached, the lock released and the
\* entry appended.
LsRead ==
    /\ pc[R] = "ls_read"
    /\ CACHE_LOCK = R
    /\ LET c == chk[R].cid
           container_data ==
             [id |-> c, name |-> ContainerName(c), image |-> chk[R].image_name,
              short_id |-> ShortId(c),
              cached_result |-> IF c \in DOMAIN SERVER_CACHE
                                THEN <<SERVER_CACHE[c]>> ELSE <<>>]
       IN  resp' = [resp EXCEPT !.body = Append(@, container_data)]
    /\ CACHE_LOCK' = "free"
    /\ chk' = [chk EXCEPT ![R] = NoChk]
    /\ pos' = [pos EXCEPT ![R] = @ + 1]
    /\ pc' = [pc EXCEPT ![R] = "ls_iter"]
    /\ UNCHANGED <<worldVars, config, now, SERVER_CACHE, result, lastPull,
                   updVars, containers, current_hostname, workerVars, quota,
                   dispatchOk, cycleHist, enumHist,
                   checkHist, settingsVars>>

\* Line 270: the response.
LsDone ==
    /\ pc[R] = "ls_iter"
    /\ pos[R] > Len(containers[R])
    /\ resp' = [resp EXCEPT !.status = 200]
    /\ pc' = [pc EXCEPT ![R] = "idle"]
    /\ containers' = [containers EXCEPT ![R] = <<>>]
    /\ pos' = [pos EXCEPT ![R] = 0]
    /\ current_hostname' = [current_hostname EXCEPT ![R] = <<>>]
    /\ UNCHANGED <<worldVars, sharedVars, checkVars, updVars, workerVars, quota,
                   dispatchOk, cycleHist, enumHist,
                   checkHist, settingsVars>>

ReqNext ==
    \/ ReqCheck \/ ReqUpdate \/ ReqList
    \/ ChkGet(R) \/ ChkPull(R) \/ ChkLock(R) \/ ChkWrite(R)
    \/ UpdPull(R) \/ UpdRun(R)
    \/ LsIter \/ LsRead \/ LsDone

\* The bodies of POST /api/settings requests.
NewSettings ==
    {[check_mode |-> m] : m \in {"manual", "startup", "background"}}
      \cup {[check_interval |-> [kind |-> "int", val |-> 1]]}

\* The configuration file between open(CONFIG_FILE, 'w') and the end of
\* json.dump: it exists and holds no document.
Truncated == [exists |-> TRUE]

\* POST /api/settings, lines 225-230: the stored configuration is loaded and
\* the request's keys are merged into it.
ReqSettings ==
    /\ pc[R] = "idle"
    /\ quota > 0
    /\ quota' = quota - 1
    /\ runResult' = [runResult EXCEPT ![R] = "none"]
    /\ \E new_settings \in NewSettings :
          current_config' = MergeSettings(LoadConfig(config), new_settings)
    /\ pc' = [pc EXCEPT ![R] = "save_open"]
    /\ resp' = NoResp
    /\ UNCHANGED <<worldVars, sharedVars, checkVars, target, refreshed, scanVars,
                   workerVars, dispatchOk, cycleHist, enumHist, checkHist, saved>>

\* save_config, line 60: the file is opened for writing, which empties it;
\* when the open raises, save_config returns False and the answer is 500.
SaveOpen ==
    /\ pc[R] = "save_open"
    /\ \/ /\ config' = Truncated
          /\ pc' = [pc EXCEPT ![R] = "save_dump"]
          /\ UNCHANGED <<resp, current_config>>
       \/ /\ resp' = [kind |-> "error", status |-> 500]
          /\ pc' = [pc EXCEPT ![R] = "idle"]
          /\ current_config' = DEFAULT_CONFIG
          /\ UNCHANGED config
    /\ UNCHANGED <<worldVars, now, SERVER_CACHE, CACHE_LOCK, checkVars, updVars,
                   scanVars, workerVars, quota, dispatchOk, cycleHist, enumHist,
                   checkHist, saved>>

\* save_config, lines 61-62, and lines 231-232: the document is written and
\* the file closed.
SaveDump ==
    /\ pc[R] = "save_dump"
    /\ config' = [exists |-> TRUE, data |-> current_config]
    /\ saved' = current_config
    /\ resp' = [kind |-> "settings", status |-> 200]
    /\ pc' = [pc EXCEPT ![R] = "idle"]
    /\ current_config' = DEFAULT_CONFIG
    /\ UNCHANGED <<worldVars, now, SERVER_CACHE, CACHE_LOCK, checkVars, updVars,
                   scanVars, workerVars, quota, dispatchOk, cycleHist, enumHist,
                   checkHist>>

SettingsNext == ReqSettings \/ SaveOpen \/ SaveDump

\* ------------------------------------------------------- the specifications

Intervals == {[kind |-> "int", val |-> n] : n \in {1, 2}}

Files(modes, intervals, autos, lists) ==
    {[exists |-> TRUE,
      data |-> [check_mode |-> m, check_interval |-> i, auto_update_mode |-> a,
                auto_update_containers |-> l]] :
        m \in modes, i \in intervals, a \in autos, l \in lists}

NotNumber == [kind |-> "str", val |-> 0]
Minutes(n) == [kind |-> "int", val |-> n]

\* A stale and a current tagged image, and an image no registry serves.
PlainSpecs == {sp \in ImageSpecs : ~Contains(sp.cfg, UPDATER_IMAGE) /\ sp.cfg # <<>>}
StaleSpec == [tags |-> <<NGINX>>, cfg |-> <<"nginx">>, id |-> IMG_OLD]

\* A host on which the stored check_interval is no number: the worker only
\* backs off.
InitBackoff ==
    InitWith({<<0, 0, 0>>}, {[c \in CIDs |-> StaleSpec]},
             Files({"background"}, {NotNumber}, {"off"}, {{}}),
             MaxTime - BACKOFF_SLEEP, 0)

\* The whole system: the worker and the request handlers, on a host whose
\* containers all run a stale image, for one background cycle.
Init ==
    \/ InitWith({<<0, 0, 0>>}, {[c \in CIDs |-> StaleSpec]},
                Files({"background"}, {Minutes(2)}, {"all"}, {{}}),
                MaxTime - TICK_SLEEP, MaxRequests)
    \/ InitBackoff

Next == WorkerNext \/ ReqNext

Spec == Init /\ [][Next]_vars

\* The request handlers alone: in a mode other than 'background' the worker's
\* iterations touch nothing.
InitManual ==
    InitWith(Hostnames, [CIDs -> ImageSpecs], {[exists |-> FALSE]},
             StartTime, ManualRequests)

SpecManual == InitManual /\ [][ReqNext]_vars

\* The worker alone, one cycle, on every host.
InitFleet ==
    \/ InitWith(Hostnames, [CIDs -> ImageSpecs],
                Files({"background"}, {Minutes(2)}, {"all"}, {{}}),
                MaxTime - TICK_SLEEP, 0)
    \/ InitBackoff

SpecFleet == InitFleet /\ [][WorkerNext]_vars

\* The worker alone, one cycle, under every auto-update policy.
InitPolicy ==
    \/ InitWith({<<0, 0, 0>>}, [CIDs -> PlainSpecs],
                Files({"background"}, {Minutes(2)}, AutoModes, SUBSET AllNames),
                MaxTime - TICK_SLEEP, 0)
    \/ InitBackoff

SpecPolicy == InitPolicy /\ [][WorkerNext]_vars

\* The worker alone over several intervals, with calls that take time.
InitSched ==
    InitWith({<<0, 0, 0>>}, {[c \in CIDs |-> StaleSpec]},
             Files({"background"}, Intervals \cup {NotNumber}, {"all"}, {{}}),
             StartTime, 0)

SpecSched == InitSched /\ [][WorkerNext \/ Elapse]_vars

\* The worker and POST /api/settings requests, over two intervals of one
\* minute.
InitConfig ==
    \/ InitWith({<<0, 0, 0>>}, {[c \in CIDs |-> StaleSpec]},
                Files({"manual", "background"}, {Minutes(1)}, {"all"}, {{}}),
                MaxTime - BACKOFF_SLEEP - TICK_SLEEP, MaxRequests)
    \/ InitBackoff

SpecConfig == InitConfig /\ [][WorkerNext \/ SettingsNext]_vars

\* ================================================================ properties

\* The outcomes in existence: each thread's, the cached ones, and the one in
\* check_update's response.
Outcomes ==
    {result[t] : t \in Threads}
      \cup {SERVER_CACHE[c] : c \in DOMAIN SERVER_CACHE}
      \cup (IF resp.kind = "check" THEN {resp.body} ELSE {})

Returns(t) == pc[t] = "chk_write" /\ pc'[t] # "chk_write"

\* C2: in every reachable state, every outcome perform_single_check has built
\* or returned and every entry of SERVER_CACHE that is local is not an update.
C2_LocalNeverUpdate == \A o \in Outcomes : o.is_local => ~o.update_available

C2_Witness == \E c \in DOMAIN SERVER_CACHE : SERVER_CACHE[c].is_local

\* C3: when the pull raised NotFound or APIError, perform_single_check goes on
\* without raising, its outcome is is_local, not update_available, with
\* new_id_short "n/a", and on return that outcome is the cache's entry of the
\* container and what the caller gets.
C3_RegistryErrorIsLocal ==
    [][\A t \in Threads :
         /\ (pc[t] = "chk_pull" /\ pc'[t] # "chk_pull"
               /\ lastPull'[t].kind \in {"NotFound", "APIError"})
            => /\ pc'[t] = "chk_lock"
               /\ result'[t].is_local
               /\ ~result'[t].update_available
               /\ result'[t].new_id_short = NA
         /\ (pc[t] = "chk_lock" /\ pc'[t] # "chk_lock") => pc'[t] = "chk_write"
         /\ (Returns(t) /\ lastPull[t].kind \in {"NotFound", "APIError"})
            => /\ chk[t].cid \in DOMAIN SERVER_CACHE'
               /\ SERVER_CACHE'[chk[t].cid] = result[t]
               /\ result[t].is_local /\ ~result[t].update_available
               /\ result[t].new_id_short = NA
               /\ IF t = W THEN pc'[t] = "decide" /\ result'[t] = result[t]
                  ELSE resp' = [kind |-> "check", status |-> 200,
                                body |-> result[t]]]_vars

C3_Witness ==
    \E c \in DOMAIN SERVER_CACHE :
        /\ SERVER_CACHE[c].is_local
        /\ pc[W] = "decide" /\ chk[W].cid = c /\ lastPull[W].kind = "APIError"

\* C4: the outcome's update_available is true exactly when the pull returned
\* an image whose id differs from the id of the image the container runs; a
\* pull that returned the running image gives neither update nor local.
C4_UpdateIffDiffers ==
    \A t \in Threads :
        pc[t] \in {"chk_lock", "chk_write", "decide"} =>
            LET running == fleet[chk[t].cid].id
                pulled == lastPull[t]
            IN  /\ result[t].update_available
                     <=> (pulled.kind = "ok" /\ pulled.id # running)
                /\ (pulled.kind = "ok" /\ pulled.id = running)
                     => (~result[t].update_available /\ ~result[t].is_local)

C4_Witness ==
    /\ pc[W] = "decide"
    /\ lastPull[W].kind = "ok"
    /\ lastPull[W].id = fleet[chk[W].cid].id
    /\ ~result[W].update_available

\* C9: a thread inside perform_single_check past the resolution of the image
\* reference never holds an unknown marker: with one it neither pulls nor
\* writes the cache.
C9_UnknownNeverPulled ==
    \A t \in Threads :
        pc[t] \in {"chk_pull", "chk_lock", "chk_write"} =>
            chk[t].image_name \notin {UNKNOWN_IMAGE, UNKNOWN}

\* C1: when list_containers reads the cache entry of a container for which a
\* dispatch returned (the worker's, with its eviction, or run_update's) and
\* no check of it has completed since, it finds no entry.
C1_EvictedAfterDispatch ==
    (pc[R] = "ls_read" /\ chk[R].cid \in dispatchOk)
        => chk[R].cid \notin DOMAIN SERVER_CACHE

\* The stored policy, and the container the worker is deciding on.
Policy == LoadConfig(config)
Deciding == chk[W].cid

\* C5: the worker goes from its policy decision to the dispatch exactly when
\* the check's outcome is an update that is not local and the mode is 'all',
\* or 'selected' with the container's name on the list; a dispatch starts
\* nowhere else, and it is for the container just checked.
C5_DispatchPolicy ==
    [][LET dispatch ==
             /\ result[W].update_available
             /\ ~result[W].is_local
             /\ \/ Policy.auto_update_mode = "all"
                \/ /\ Policy.auto_update_mode = "selected"
                   /\ ContainerName(Deciding) \in Policy.auto_update_containers
       IN  /\ (pc[W] = "decide" /\ pc'[W] # "decide")
                => ((pc'[W] = "upd_pull") <=> dispatch)
           /\ (pc'[W] = "upd_pull" /\ pc[W] # "upd_pull")
                => /\ pc[W] = "decide"
                   /\ Deciding \in attempted
                   /\ target'[W] = ContainerName(Deciding)]_vars

C5_Witness ==
    /\ pc[W] = "upd_pull"
    /\ Policy.auto_update_mode = "selected"
    /\ target[W] \in Policy.auto_update_containers
    /\ Policy.auto_update_containers # AllNames

\* The stored interval, in seconds.
IntervalSeconds == Policy.check_interval.val * 60
Enumerates == pc[W] = "enum" /\ pc'[W] # "enum"
TickDue ==
    /\ pc[W] = "load" /\ pc'[W] # "load"
    /\ Policy.check_mode = "background"
    /\ Policy.check_interval.kind = "int"
    /\ now - last_check_time >= IntervalSeconds

Processing ==
    pc[W] \in {"chk_get", "chk_pull", "chk_lock", "chk_write", "decide",
               "upd_pull", "upd_run", "evict_lock", "evict"}

\* C7: the worker never checks or dispatches a container whose short id is
\* within the host name or whose resolved image reference contains the
\* updater's name, and list_containers' response holds no such container.
C7_SelfAndUpdaterExcluded ==
    /\ Processing =>
         /\ ~Contains(hostname, ShortId(chk[W].cid))
         /\ ~Contains(chk[W].image_name, UPDATER_IMAGE)
    /\ resp.kind = "list" =>
         \A i \in 1..Len(resp.body) :
            /\ ~Contains(hostname, resp.body[i].short_id)
            /\ ~Contains(resp.body[i].image, UPDATER_IMAGE)

InCycle == pc[W] = "iter" \/ Processing
Enumerated == {containers[W][i] : i \in 1..Len(containers[W])}
Eligible(c) ==
    /\ ~Contains(hostname, ShortId(c))
    /\ ~Contains(GetImageName(fleet[c], TRUE), WATCHTOWER)

\* C8: the worker leaves a cycle only with the check of every enumerated
\* container that is neither itself nor the updater attempted, whatever
\* failed on the way.
C8_AllEligibleAttempted ==
    [][(InCycle /\ ~InCycle')
         => /\ Enumerated = CIDs
            /\ \A c \in Enumerated : Eligible(c) => c \in attempted]_vars

C8_Witness ==
    /\ pc[W] = "sleep"
    /\ \E c \in failed, d \in attempted : d > c

\* C10: the step in which a one-shot run raises leaves the cache as it was and
\* does not lead to the eviction, and the cache loses an entry only in the
\* worker's eviction after a run that returned, for the container of that run.
C10_FailedDispatchKeepsEntry ==
    [][/\ \A t \in Threads :
            (pc[t] = "upd_run" /\ pc'[t] # "upd_run" /\ runResult'[t] = "fail")
              => /\ SERVER_CACHE' = SERVER_CACHE
                 /\ pc'[t] \notin {"evict_lock", "evict"}
       /\ \A c \in DOMAIN SERVER_CACHE :
            c \notin DOMAIN SERVER_CACHE'
              => /\ pc[W] = "evict"
                 /\ runResult[W] = "ok"
                 /\ ContainerName(c) = target[W]]_vars

C10_Witness ==
    /\ runResult[W] = "fail"
    /\ runResult[R] = "fail"
    /\ DOMAIN SERVER_CACHE = CIDs

\* The worker over several intervals, its thread scheduled again and again
\* and every call to the runtime returning or raising; the stored interval is
\* one or two minutes, or no number.
SpecLive == InitSched /\ [][WorkerNext]_vars /\ WF_vars(WorkerNext)

\* The instants from which the longest sleep still ends within the horizon.
InHorizon == now + BACKOFF_SLEEP <= MaxTime

\* C11: the background worker never terminates. Wherever the worker is in an
\* iteration, and whatever failed in it (the interval's parsing, the
\* enumeration, a check, a dispatch), it eventually is at the start of
\* another iteration (line 157), as long as the modelled horizon lasts.
C11_WorkerKeepsIterating ==
    [](\A p \in {"enum", "iter", "chk_get", "chk_pull", "chk_lock", "chk_write",
                 "decide", "upd_pull", "upd_run", "evict_lock", "evict",
                 "sleep", "backoff"} :
          (pc[W] = p /\ InHorizon) => <>(pc[W] = "load"))

\* A new iteration starts after a cycle in which a container's check or
\* dispatch raised.
C11_Witness ==
    /\ pc[W] = "load"
    /\ failed # {}
    /\ last_check_time > 0

\* Every field of an outcome except checked_at.
Fields(o) == [o EXCEPT !.checked_at = 0]

\* Thread t's check of container c is about to return, it started after the
\* previous check of c had returned, and nothing was dispatched for c since:
\* the previous check's outcome is the cached one.
Rechecks(t, c) ==
    /\ pc[t] = "chk_write"
    /\ chk[t].cid = c
    /\ c \in DOMAIN SERVER_CACHE
    /\ prevPull[c] # "none"
    /\ ~overlap[t]

\* The pulls of the two checks ended the same way: both returned the image,
\* or both raised a registry error.
SamePullEnd(t, c) == (lastPull[t].kind = "ok") <=> (prevPull[c] = "returned")

\* C12 as stated: two consecutive checks of a container, with the same
\* running image and the same image served by the registry, return outcomes
\* that agree on every field except checked_at, and the cache entry is left
\* with those fields.
C12_RecheckSameFields ==
    [][\A t \in Threads : \A c \in CIDs :
          (Rechecks(t, c) /\ Returns(t))
            => /\ Fields(result[t]) = Fields(SERVER_CACHE[c])
               /\ Fields(SERVER_CACHE'[c]) = Fields(result[t])]_vars

\* C12, amended: the same, for two consecutive checks whose pulls ended the
\* same way (a pull that raises a registry error after one that returned, or
\* the reverse, changes is_local, update_available and the new-image fields).
C12_RecheckSameFieldsSamePull ==
    [][\A t \in Threads : \A c \in CIDs :
          (Rechecks(t, c) /\ SamePullEnd(t, c) /\ Returns(t))
            => /\ Fields(result[t]) = Fields(SERVER_CACHE[c])
               /\ Fields(SERVER_CACHE'[c]) = Fields(result[t])]_vars

\* A request's check about to return, after the worker's check of the same
\* container returned a sleep earlier, both pulls having raised.
C12_Witness ==
    \E c \in CIDs :
        /\ Rechecks(R, c)
        /\ SamePullEnd(R, c)
        /\ SERVER_CACHE[c].checked_at < result[R].checked_at
        /\ Fields(SERVER_CACHE[c]) = Fields(result[R])

\* Where a thread is inside `with CACHE_LOCK:` (lines 123, 193, 263-264), and
\* where it is inside or between calls to the runtime.
InLockedBlock(t) == pc[t] \in {"chk_write", "evict", "ls_read"}
InRuntimeCall(t) ==
    pc[t] \in {"enum", "chk_get", "chk_pull", "upd_pull", "upd_run"}

\* C13: in every state of every interleaving of the worker and the requests,
\* a thread holds CACHE_LOCK exactly while it is at its single cache write,
\* delete or read, and never while it is in an image pull, a one-shot run or
\* another call to the runtime.
C13_NoBlockingUnderLock ==
    \A t \in Threads :
        /\ (CACHE_LOCK = t) <=> InLockedBlock(t)
        /\ InRuntimeCall(t) => CACHE_LOCK # t

\* A request holds the lock for its cache access while the worker is inside
\* the one-shot run.
C13_Witness == CACHE_LOCK = R /\ pc[W] = "upd_run" /\ pc[R] \in {"chk_write", "ls_read"}

\* A step in which a failure ends the worker's iteration: the enumeration
\* raises, or the stored interval is no number.
EnumerationFails == pc[W] = "enum" /\ pc'[W] \notin {"enum", "iter"}
IntervalFails ==
    /\ pc[W] = "load"
    /\ pc'[W] # "load"
    /\ Policy.check_mode = "background"
    /\ Policy.check_interval.kind # "int"

\* C14: whenever a failure ends a worker iteration, the failure of the
\* enumeration included, the worker sleeps the backoff interval of 60 s, and
\* not the tick interval of 10 s, before its next iteration.
C14_FailureBacksOff ==
    [][/\ (EnumerationFails \/ IntervalFails) => pc'[W] = "backoff"
       /\ (pc[W] = "backoff" /\ pc'[W] = "load") => now' = now + BACKOFF_SLEEP]_vars

\* The two markers get_image_name returns for a reference it cannot resolve.
Unresolved(image_name) == image_name \in {UNKNOWN_IMAGE, UNKNOWN}

\* A step in which thread t's perform_single_check raises.
CheckFails(t) ==
    /\ pc[t] \in {"chk_get", "chk_pull"}
    /\ pc'[t] \notin {"chk_get", "chk_pull", "chk_lock"}

\* Container c's cache entry is created or replaced in the step.
Written(c) ==
    /\ c \in DOMAIN SERVER_CACHE'
    /\ c \notin DOMAIN SERVER_CACHE \/ SERVER_CACHE'[c] # SERVER_CACHE[c]

\* C15: perform_single_check(id) changes the cache only when it succeeds, and
\* then only the entry of id, which becomes the returned outcome; a call that
\* fails, as one whose container lookup fails, whose image reference is
\* unresolved or whose pull raises another error than a registry error,
\* leaves the cache unchanged; the other containers' entries are untouched.
C15_CheckFrame ==
    [][/\ \A c \in CIDs :
            Written(c) => \E t \in Threads :
                            /\ Returns(t)
                            /\ chk[t].cid = c
                            /\ SERVER_CACHE'[c] = result[t]
                            /\ ~Unresolved(chk[t].image_name)
       /\ \A t \in Threads :
            /\ CheckFails(t) => SERVER_CACHE' = SERVER_CACHE
            /\ Returns(t) =>
                 \A c \in CIDs \ {chk[t].cid} :
                    /\ (c \in DOMAIN SERVER_CACHE') <=> (c \in DOMAIN SERVER_CACHE)
                    /\ c \in DOMAIN SERVER_CACHE => SERVER_CACHE'[c] = SERVER_CACHE[c]]_vars

\* C16: under any interleaving of checks of the same container by the worker
\* and by requests, the container's cache entry is absent or is the complete
\* outcome of the check that wrote last: every step that creates or replaces
\* the entry stores the whole outcome the writing thread built from its own
\* pull, and never a mixture of fields of two outcomes.
C16_LastWriterWins ==
    [][\A c \in CIDs :
          Written(c) => \E t \in Threads :
                          /\ Returns(t)
                          /\ chk[t].cid = c
                          /\ result[t] = CheckResult(chk[t].current_id, lastPull[t],
                                                     result[t].checked_at)
                          /\ SERVER_CACHE'[c] = result[t]]_vars

\* The worker is about to write its outcome for a container whose entry a
\* request's check, finished while the worker's check ran, has just set to
\* another outcome.
C16_Witness ==
    /\ pc[W] = "chk_write"
    /\ overlap[W]
    /\ resp.kind = "check"
    /\ chk[W].cid \in DOMAIN SERVER_CACHE
    /\ SERVER_CACHE[chk[W].cid] = resp.body
    /\ Fields(resp.body) # Fields(result[W])

\* C17: last_check_time changes only in the step that ends a cycle, after
\* every container of the enumeration was skipped by a filter or had its
\* check attempted, and it becomes the time of that step; it does not change
\* while containers are processed, in an iteration that starts no cycle, or
\* when the enumeration fails.
C17_StampOnlyAtCycleEnd ==
    [][/\ last_check_time' # last_check_time
            => /\ pc[W] = "iter"
               /\ pc'[W] = "sleep"
               /\ pos[W] > Len(containers[W])
               /\ Enumerated = CIDs
               /\ attempted \cup skipped = Enumerated
               /\ last_check_time' = now
       /\ (Processing \/ Processing') => last_check_time' = last_check_time
       /\ (pc[W] = "load" /\ pc'[W] \in {"sleep", "backoff"})
            => last_check_time' = last_check_time
       /\ EnumerationFails => last_check_time' = last_check_time]_vars

\* A slow cycle with a failed container has ended: its time is that of its
\* end, later than that of its enumeration.
C17_Witness ==
    /\ pc[W] = "sleep"
    /\ last_check_time = now
    /\ goodEnumAt >= 0
    /\ goodEnumAt < last_check_time
    /\ failed # {}

\* The step that starts a worker iteration (lines 157-164).
IterationStarts == pc[W] = "load" /\ pc'[W] # "load"

\* C18: each worker iteration acts on the configuration as it is stored when
\* the iteration starts. What it decides on is what load_config returns; an
\* iteration that reads a mode other than 'background' only sleeps; once the
\* stored check_mode is not 'background' no iteration begins a cycle; and
\* once it is 'background' an iteration whose interval has elapsed begins one.
C18_ActsOnStoredConfig ==
    [][IterationStarts =>
         /\ wcfg' = LoadConfig(config)
         /\ LoadConfig(config).check_mode # "background"
              => pc'[W] = "sleep" /\ SERVER_CACHE' = SERVER_CACHE
         /\ saved.check_mode # "background" => pc'[W] # "enum"
         /\ ( /\ saved.check_mode = "background"
              /\ saved.check_interval.kind = "int"
              /\ IntervalElapsed(now, last_check_time, saved.check_interval.val) )
              => pc'[W] = "enum"]_vars

\* Thread t's trigger_updater_engine raises in the step: the worker's handler
\* of line 195 or run_update's of line 288 takes over.
DispatchRaises(t) ==
    IF t = W THEN pc'[t] = "iter" ELSE resp'.kind = "error"

\* C19: trigger_updater_engine goes on to the one-shot run for the named
\* container whether the refresh pull of the updater image returned or
\* raised, and it raises exactly when the one-shot run raises.
C19_RefreshFailureNotFatal ==
    [][\A t \in Threads :
          /\ (pc[t] = "upd_pull" /\ pc'[t] # "upd_pull")
               => /\ pc'[t] = "upd_run"
                  /\ target'[t] = target[t]
                  /\ ~DispatchRaises(t)
          /\ (pc[t] = "upd_run" /\ pc'[t] # "upd_run")
               => /\ runResult'[t] \in {"ok", "fail"}
                  /\ DispatchRaises(t) <=> runResult'[t] = "fail"]_vars

\* The worker's dispatch returned although its refresh pull had raised.
C19_Witness ==
    /\ pc[W] = "evict_lock"
    /\ runResult[W] = "ok"
    /\ ~refreshed[W]

\* C20: under any interleaving of a background cycle with manual checks of
\* the same container, the eviction after a successful background dispatch
\* deletes no outcome of a check that pulled and wrote after the dispatch
\* returned, and no outcome computed from a pull made before the dispatch
\* returned is written into the cache after the eviction.
C20_EvictionRaceFree ==
    [][/\ (pc[W] = "evict" /\ pc'[W] # "evict") => ~lateWrite
       /\ \A t \in Threads :
            (Returns(t) /\ stalePull[t]) => chk[t].cid \notin dispatchOk]_vars

====
